---- MODULE Spec2Model ----
(***************************************************************************)
(* MINT-AGE clustering pipeline (mintage_pipeline/mint_age.py).            *)
(*                                                                         *)
(* Three specifications over one set of variables:                         *)
(*   SpecThreshold  find_outlier_threshold_simple as a pure function       *)
(*   SpecAPI        AGE and MINT called repeatedly on one item collection  *)
(*   Spec           run_mint_age_pipeline, run after run, one file system  *)
(*                                                                         *)
(* Abstractions.  A feature vector is present ("vector") or None; the      *)
(* geometry of the feature matrix is represented by the linkage matrix     *)
(* that method(pdist(data)) yields for it.  Merge distances are integers;  *)
(* outlier_percentage is the rational PNum / PDen.                         *)
(***************************************************************************)
EXTENDS Integers, Sequences, FiniteSets, TLC

VARIABLES
    pc,                 \* position of the caller / of run_mint_age_pipeline
    suites,             \* the item collection (sequence of items)
    linkage_matrix,     \* Z: one record [a, b, dist] per merge
    percentage,         \* numerator of outlier_percentage (over PDen)
    data_count,
    min_cluster_size,
    threshold,          \* value returned by find_outlier_threshold_simple
    cluster_list,       \* value returned by AGE
    outlier_indices,    \* AGE's local: rows of the feature matrix flagged outlier
    suite_indices,      \* AGE's local: row -> original item identifier
    refined_clusters,   \* value returned by MINT
    noise,              \* original identifiers the mode-hunting collaborator discarded
    hunted,             \* the collaborator's answers so far, by pre-cluster
    old_suites,         \* the collection as it was when the last AGE / MINT call began
    calls,              \* number of AGE / MINT calls or pipeline runs so far
    recalculate,        \* run_mint_age_pipeline arguments
    plot,
    procrustes_file,    \* <output_folder>/procrustes_suites.pickle
    final_pickle,       \* <output_folder>/mint_age_final_suites.pickle
    final_plots,        \* whether plot_clustering has rendered into final_plots
    parsed,             \* what parse_data returned in this run
    file_before,        \* procrustes_file as procrustes_step found it
    io,                 \* what this run did: reads, writes, collaborator calls
    error,              \* exception that ended the call, or "none"
    returned            \* value returned by run_mint_age_pipeline, or <<>>

vars == << pc, suites, linkage_matrix, percentage, data_count, min_cluster_size,
           threshold, cluster_list, outlier_indices, suite_indices,
           refined_clusters, noise, hunted, old_suites, calls, recalculate, plot,
           procrustes_file, final_pickle, final_plots, parsed, file_before,
           io, error, returned >>

(***************************************************************************)
(* Bounds                                                                  *)
(***************************************************************************)
MaxPts == 4        \* rows of a linkage structure in SpecThreshold: 2..MaxPts
MaxDist == 2       \* merge distances range over 1..MaxDist
PDen == 3          \* outlier_percentage ranges over -1/PDen .. PDen/PDen
MaxM == 4          \* min_cluster_size ranges over 1..MaxM
NumSuites == 3     \* a collection has 0..NumSuites items
MaxCalls == 4      \* SpecRepeat: AGE / MINT calls on one collection
PipeSuites == 2    \* Spec: parse_data returns 0..PipeSuites items

(***************************************************************************)
(* Small helpers                                                           *)
(***************************************************************************)
Max(a, b) == IF a >= b THEN a ELSE b

SetMin(S) == CHOOSE x \in S : \A y \in S : x <= y

RECURSIVE SumSeq(_)
SumSeq(s) == IF s = << >> THEN 0 ELSE Head(s) + SumSeq(Tail(s))

RECURSIVE Insert(_, _)
Insert(x, s) ==
    IF s = << >> THEN << x >>
    ELSE IF x <= Head(s) THEN << x >> \o s
    ELSE << Head(s) >> \o Insert(x, Tail(s))

RECURSIVE InsertDescending(_, _)
InsertDescending(x, s) ==
    IF s = << >> THEN << x >>
    ELSE IF x >= Head(s) THEN << x >> \o s
    ELSE << Head(s) >> \o InsertDescending(x, Tail(s))

RECURSIVE SortDescending(_)
SortDescending(s) ==
    IF s = << >> THEN << >> ELSE InsertDescending(Head(s), SortDescending(Tail(s)))

\* np.sort: ascending
RECURSIVE Sort(_)
Sort(s) == IF s = << >> THEN << >> ELSE Insert(Head(s), Sort(Tail(s)))

(***************************************************************************)
(* Linkage structures.  A linkage over n rows has n-1 merge records.  Rows *)
(* of the feature matrix are the leaves 1..n; the cluster formed by merge  *)
(* record i has identifier n+i (scipy's convention, 1-based here).  The    *)
(* merge distances of average linkage are non-decreasing.                  *)
(***************************************************************************)
NumObs(Z) == Len(Z) + 1

RECURSIVE LinkagesFrom(_, _, _, _)
LinkagesFrom(n, active, last, k) ==
    IF k = n THEN { << >> }
    ELSE UNION { UNION { { << [a |-> pr[1], b |-> pr[2], dist |-> d] >> \o rest :
                            rest \in LinkagesFrom(n, (active \ {pr[1], pr[2]}) \cup {n + k},
                                                  d, k + 1) } :
                         d \in last..MaxDist } :
                 pr \in { q \in active \X active : q[1] < q[2] } }

\* every linkage structure method(dist_vec) can yield for n rows
Linkages(n) == LinkagesFrom(n, 1..n, 1, 1)

\* rows below node id
RECURSIVE Leaves(_, _)
Leaves(Z, id) ==
    IF id <= NumObs(Z) THEN {id}
    ELSE Leaves(Z, Z[id - NumObs(Z)].a) \cup Leaves(Z, Z[id - NumObs(Z)].b)

\* largest merge distance in the subtree below node id (0 for a leaf)
RECURSIVE MaxDistBelow(_, _)
MaxDistBelow(Z, id) ==
    IF id <= NumObs(Z) THEN 0
    ELSE Max(Z[id - NumObs(Z)].dist,
             Max(MaxDistBelow(Z, Z[id - NumObs(Z)].a), MaxDistBelow(Z, Z[id - NumObs(Z)].b)))

\* scipy's cluster_monocrit walk below merge record i: a node whose subtree
\* has no merge above t opens a new flat cluster unless it lies inside one;
\* internal children are walked first (left, then right), then the leaf
\* children are numbered.  st = [T |-> labels so far, k |-> clusters so far].
RECURSIVE Walk(_, _, _, _, _)
Walk(Z, t, i, inside, st) ==
    LET n == NumObs(Z)
        opens == ~inside /\ MaxDistBelow(Z, n + i) <= t
        in == inside \/ opens
        s0 == IF opens THEN [st EXCEPT !.k = @ + 1] ELSE st
        s1 == IF Z[i].a > n THEN Walk(Z, t, Z[i].a - n, in, s0) ELSE s0
        s2 == IF Z[i].b > n THEN Walk(Z, t, Z[i].b - n, in, s1) ELSE s1
        leader == s0.k
        Number(s, leaf) ==
            IF leaf > n THEN s
            ELSE IF in THEN [s EXCEPT !.T[leaf] = leader]
            ELSE [T |-> [s.T EXCEPT ![leaf] = s.k + 1], k |-> s.k + 1]
    IN Number(Number(s2, Z[i].a), Z[i].b)

\* fcluster(Z, t, criterion='distance'): flat cluster ids 1..k, one per row
fcluster(Z, t) ==
    Walk(Z, t, Len(Z), FALSE, [T |-> [r \in 1..NumObs(Z) |-> 0], k |-> 0]).T

\* Counter(labs)[c]
Count(labs, c) == Cardinality({ r \in DOMAIN labs : labs[r] = c })

\* the keys of Counter(labs), in insertion order (order of first encounter)
RECURSIVE CounterKeysFrom(_, _, _)
CounterKeysFrom(labs, r, seen) ==
    IF r > Len(labs) THEN << >>
    ELSE IF labs[r] \in seen THEN CounterKeysFrom(labs, r + 1, seen)
    ELSE << labs[r] >> \o CounterKeysFrom(labs, r + 1, seen \cup {labs[r]})

CounterKeys(labs) == CounterKeysFrom(labs, 1, {})

\* sum(cnt for cnt in counts.values() if cnt < min_cluster_size)
SmallClusterPts(labs, m) ==
    LET keys == CounterKeys(labs)
    IN SumSeq([j \in 1..Len(keys) |->
                 IF Count(labs, keys[j]) < m THEN Count(labs, keys[j]) ELSE 0])

FracOKPercentUnits(labs, p, n, m) == SmallClusterPts(labs, m) * PDen <= p * n * 100

\* outlier_frac <= percentage, with percentage = p / PDen
FracOK(labs, p, n, m) == SmallClusterPts(labs, m) * PDen <= p * n

Distances(Z) == [i \in 1..Len(Z) |-> Z[i].dist]

SentinelNoIncrement(Z) == Z[Len(Z)].dist

\* linkage_matrix[-1, 2] + 1.0
Sentinel(Z) == Z[Len(Z)].dist + 1

\* the for loop of find_outlier_threshold_simple over ds: first d that matches
RECURSIVE Scan(_, _, _, _, _)
Scan(Z, ds, p, n, m) ==
    IF ds = << >> THEN Sentinel(Z)
    ELSE IF FracOK(fcluster(Z, Head(ds)), p, n, m) THEN Head(ds)
    ELSE Scan(Z, Tail(ds), p, n, m)

find_outlier_threshold_simple(Z, p, n, m) ==
    IF p <= 0 THEN Sentinel(Z)
    ELSE Scan(Z, Sort(Distances(Z)), p, n, m)

(***************************************************************************)
(* Items.  An item has its feature vector (None or present) and, once a    *)
(* stage has labelled it, the attribute `clustering`: a map from stage     *)
(* name to label.  Original item identifiers are positions in the          *)
(* collection (1-based here); pre-cluster and final labels are zero-based  *)
(* as in the code.                                                         *)
(***************************************************************************)
EmptyMap == [k \in {} |-> 0]

IntLabel(i) == [int |-> i]

OutlierLabel == [str |-> "outlier"]

Item(angles) == [dihedral_angles |-> angles, aligned |-> FALSE,
                 has_clustering |-> FALSE, clustering |-> EmptyMap]

\* if not hasattr(suite, "clustering"): suite.clustering = {}
\* suite.clustering[key] = val
SetLabel(item, key, val) ==
    LET map == IF item.has_clustering THEN item.clustering ELSE EmptyMap
    IN [item EXCEPT !.has_clustering = TRUE,
                    !.clustering = [k \in DOMAIN map \cup {key} |->
                                       IF k = key THEN val ELSE map[k]]]

Range(f) == { f[x] : x \in DOMAIN f }

\* [x for x in ascending order if x in S]
RECURSIVE Ascending(_)
Ascending(S) == IF S = {} THEN << >> ELSE << SetMin(S) >> \o Ascending(S \ {SetMin(S)})

LabelListsOneBased(S, lists, key) ==
    [i \in 1..Len(S) |->
        LET hits == { j \in 1..Len(lists) : i \in Range(lists[j]) }
        IN IF hits = {} THEN S[i]
           ELSE SetLabel(S[i], key,
                         IntLabel(CHOOSE j \in hits : \A h \in hits : h <= j))]

\* for c_idx, clust in enumerate(lists): for sidx in clust: label sidx with c_idx
\* (a later list overwrites an earlier one)
LabelLists(S, lists, key) ==
    [i \in 1..Len(S) |->
        LET hits == { j \in 1..Len(lists) : i \in Range(lists[j]) }
        IN IF hits = {} THEN S[i]
           ELSE SetLabel(S[i], key,
                         IntLabel((CHOOSE j \in hits : \A h \in hits : h <= j) - 1))]

\* suite_indices = [i for i, s in enumerate(suites) if s._dihedral_angles is not None]
SuiteIndices(S) == Ascending({ i \in 1..Len(S) : S[i].dihedral_angles # "None" })

\* pdist / method reject a feature matrix of fewer than 2 rows (ValueError)
LinkageRaises(S) == Len(SuiteIndices(S)) < 2

OutlierSuiteRow(idx, r) == r

\* suites[suite_indices[sidx]] for a row sidx of outlier_indices
OutlierSuite(idx, r) == idx[r]

RECURSIVE KeepLarge(_, _, _, _)
KeepLarge(keys, labs, idx, m) ==
    IF keys = << >> THEN << >>
    ELSE IF Count(labs, Head(keys)) >= m
         THEN << [j \in 1..Count(labs, Head(keys)) |->
                    idx[Ascending({ r \in DOMAIN labs : labs[r] = Head(keys) })[j]]] >>
              \o KeepLarge(Tail(keys), labs, idx, m)
         ELSE KeepLarge(Tail(keys), labs, idx, m)

\* AGE on the collection S whose feature matrix links as Z
AGE(S, Z, p, m) ==
    LET idx == SuiteIndices(S)
        thr == find_outlier_threshold_simple(Z, p, Len(idx), m)
        labs == fcluster(Z, thr)
        outlier_clusters == { c \in Range(labs) : Count(labs, c) < m }
        outliers == { r \in DOMAIN labs : labs[r] \in outlier_clusters }
        clusters == KeepLarge(CounterKeys(labs), labs, idx, m)
        S1 == LabelLists(S, clusters, "precluster")
        S2 == [i \in 1..Len(S) |->
                 IF \E r \in outliers : OutlierSuite(idx, r) = i
                 THEN SetLabel(S1[i], "precluster", OutlierLabel) ELSE S1[i]]
    IN [suites |-> S2, cluster_list |-> clusters, threshold |-> thr,
        outlier_indices |-> outliers, suite_indices |-> idx]

(***************************************************************************)
(* The mode-hunting collaborator new_multi_slink, on a pre-cluster of      *)
(* `size` rows: a sequence of sub-partitions and a noise set, which        *)
(* together split the local rows 1..size; each sub-partition is non-empty. *)
(***************************************************************************)
ModeHunting(size) ==
    { [subclusters |-> [j \in 1..k |-> Ascending({ r \in 1..size : f[r] = j })],
       noise |-> { r \in 1..size : f[r] = 0 }] :
        <<k, f>> \in { kf \in (0..size) \X [1..size -> 0..size] :
                          /\ \A r \in 1..size : kf[2][r] <= kf[1]
                          /\ \A j \in 1..kf[1] : \E r \in 1..size : kf[2][r] = j } }

\* one answer of the collaborator per entry of the cluster list
RECURSIVE AllAnswers(_)
AllAnswers(cl) ==
    IF cl = << >> THEN { << >> }
    ELSE { << a >> \o rest : a \in ModeHunting(Len(Head(cl))), rest \in AllAnswers(Tail(cl)) }

\* the noise rows of every entry appended as one more sub-cluster
RECURSIVE RefineWithNoise(_, _)
RefineWithNoise(cl, answers) ==
    IF cl = << >> THEN << >>
    ELSE [j \in 1..Len(Head(answers).subclusters) |->
             [x \in 1..Len(Head(answers).subclusters[j]) |->
                 Head(cl)[Head(answers).subclusters[j][x]]]]
         \o (IF Head(answers).noise = {} THEN << >>
             ELSE << [x \in 1..Cardinality(Head(answers).noise) |->
                        Head(cl)[Ascending(Head(answers).noise)[x]]] >>)
         \o RefineWithNoise(Tail(cl), Tail(answers))

\* refined_clusters.append([clust_indices[idx] for idx in sc]) for every
\* sub-cluster of every non-empty entry, in order
RECURSIVE Refine(_, _)
Refine(cl, answers) ==
    IF cl = << >> THEN << >>
    ELSE IF Len(Head(cl)) = 0 THEN Refine(Tail(cl), Tail(answers))
    ELSE [j \in 1..Len(Head(answers).subclusters) |->
             [x \in 1..Len(Head(answers).subclusters[j]) |->
                 Head(cl)[Head(answers).subclusters[j][x]]]]
         \o Refine(Tail(cl), Tail(answers))

\* final_label advanced once per item instead of once per refined cluster
LabelFinalPerItem(S, refined) ==
    [i \in 1..Len(S) |->
        LET hits == { jx \in { q \in (1..Len(refined)) \X (1..Len(S)) : q[2] <= Len(refined[q[1]]) } :
                        refined[jx[1]][jx[2]] = i }
            before(j) == SumSeq([h \in 1..(j - 1) |-> Len(refined[h])])
        IN IF hits = {} THEN S[i]
           ELSE LET jx == CHOOSE h \in hits : \A g \in hits : g[1] <= h[1]
                IN SetLabel(S[i], "mint_age_cluster", IntLabel(before(jx[1]) + jx[2] - 1))]

\* final_label = 0; for clust in refined_clusters: label its items; final_label += 1
LabelFinal(S, refined) == LabelLists(S, refined, "mint_age_cluster")

MINT(S, cl, answers) ==
    LET refined == Refine(cl, answers)
    IN [suites |-> LabelFinal(S, refined),
        refined_clusters |-> refined,
        noise |-> UNION { { cl[j][r] : r \in answers[j].noise } : j \in 1..Len(cl) }]

(***************************************************************************)
(* Values of the variables a specification does not use                    *)
(***************************************************************************)
NoIO == [read_file |-> FALSE, wrote_file |-> FALSE, wrote_final |-> FALSE,
         align_calls |-> 0, plot_calls |-> 0]

NoFile == [kind |-> "absent", data |-> << >>]

ThresholdIdle ==
    /\ suites = << >> /\ cluster_list = << >> /\ outlier_indices = {}
    /\ suite_indices = << >> /\ refined_clusters = << >> /\ noise = {}
    /\ hunted = EmptyMap /\ old_suites = << >> /\ calls = 0

PipelineIdle ==
    /\ recalculate = FALSE /\ plot = FALSE
    /\ procrustes_file = NoFile /\ final_pickle = NoFile /\ final_plots = FALSE
    /\ parsed = << >> /\ file_before = NoFile /\ io = NoIO /\ returned = << >>

pipeline_vars == << recalculate, plot, procrustes_file, final_pickle, final_plots,
                    parsed, file_before, io, returned >>

collection_vars == << suites, cluster_list, outlier_indices, suite_indices,
                      refined_clusters, noise, hunted, old_suites, calls >>

(***************************************************************************)
(* SpecThreshold: find_outlier_threshold_simple on every linkage structure *)
(* of 2..MaxPts rows and every percentage, data_count and min_cluster_size *)
(* within the bounds.                                                      *)
(***************************************************************************)
InitThreshold ==
    /\ pc = "threshold_call"
    /\ linkage_matrix \in UNION { Linkages(n) : n \in 2..MaxPts }
    /\ percentage \in -1..PDen
    /\ data_count \in 1..MaxPts
    /\ min_cluster_size \in 1..MaxM
    /\ threshold = 0
    /\ error = "none"
    /\ ThresholdIdle
    /\ PipelineIdle

ThresholdCall ==
    /\ pc = "threshold_call"
    /\ threshold' = find_outlier_threshold_simple(linkage_matrix, percentage,
                                                   data_count, min_cluster_size)
    /\ pc' = "threshold_returned"
    /\ UNCHANGED << linkage_matrix, percentage, data_count, min_cluster_size, error >>
    /\ UNCHANGED collection_vars
    /\ UNCHANGED pipeline_vars

NextThreshold == ThresholdCall

SpecThreshold == InitThreshold /\ [][NextThreshold]_vars

(***************************************************************************)
(* SpecStages: the two clustering stages, run once each on a freshly       *)
(* parsed collection, in the order run_mint_age_pipeline runs them.  The   *)
(* locals of AGE are kept in the state until MINT is called.               *)
(***************************************************************************)
Collections ==
    UNION { [1..k -> { Item(a) : a \in {"None", "vector"} }] : k \in 0..NumSuites }

NoLocals ==
    /\ linkage_matrix = << >> /\ percentage = 0 /\ data_count = 0
    /\ min_cluster_size = 0 /\ threshold = 0

NoResults ==
    /\ cluster_list = << >> /\ outlier_indices = {} /\ suite_indices = << >>
    /\ refined_clusters = << >> /\ noise = {} /\ hunted = EmptyMap
    /\ old_suites = << >>

InitStages ==
    /\ pc = "start"
    /\ suites \in Collections
    /\ calls = 0
    /\ error = "none"
    /\ NoLocals
    /\ NoResults
    /\ PipelineIdle

\* what a returning AGE call leaves with its caller
AGEReturns(r) ==
    /\ suites' = r.suites
    /\ cluster_list' = r.cluster_list
    /\ outlier_indices' = r.outlier_indices
    /\ suite_indices' = r.suite_indices
    /\ old_suites' = suites
    /\ pc' = "AGE_returned"
    /\ calls' = calls + 1
    /\ UNCHANGED << refined_clusters, noise, hunted, error >>
    /\ UNCHANGED pipeline_vars

\* cluster_list = AGE(suites, method, outlier_percentage, min_cluster_size),
\* the arguments and locals of the call kept for inspection
CallAGE ==
    /\ pc = "start"
    /\ ~LinkageRaises(suites)
    /\ \E Z \in Linkages(Len(SuiteIndices(suites))), p \in 0..PDen, m \in 1..MaxM :
          LET r == AGE(suites, Z, p, m)
          IN /\ AGEReturns(r)
             /\ threshold' = r.threshold
             /\ linkage_matrix' = Z
             /\ percentage' = p
             /\ data_count' = Len(r.suite_indices)
             /\ min_cluster_size' = m

\* the same call, its arguments and locals gone when it returns
RecallAGE ==
    /\ pc \in {"start", "MINT_returned"}
    /\ ~LinkageRaises(suites)
    /\ \E Z \in Linkages(Len(SuiteIndices(suites))), p \in 0..PDen, m \in 1..MaxM :
          AGEReturns(AGE(suites, Z, p, m))
    /\ UNCHANGED << linkage_matrix, percentage, data_count, min_cluster_size, threshold >>

\* AGE on a collection with fewer than 2 feature vectors
CallAGERaises ==
    /\ pc = "start"
    /\ LinkageRaises(suites)
    /\ error' = "ValueError"
    /\ pc' = "AGE_raised"
    /\ calls' = calls + 1
    /\ UNCHANGED << suites, linkage_matrix, percentage, data_count, min_cluster_size,
                    threshold, cluster_list, outlier_indices, suite_indices,
                    refined_clusters, noise, hunted, old_suites >>
    /\ UNCHANGED pipeline_vars

\* new_multi_slink is a function of the rows it is given: a pre-cluster it
\* has seen gets the answer it got, and the answers to the others are kept
Hunts(cl, answers) ==
    /\ \A j \in 1..Len(cl) : cl[j] \in DOMAIN hunted => answers[j] = hunted[cl[j]]
    /\ hunted' = [c \in DOMAIN hunted \cup Range(cl) |->
                     IF c \in DOMAIN hunted THEN hunted[c]
                     ELSE answers[CHOOSE j \in 1..Len(cl) : cl[j] = c]]

\* refined_clusters = MINT(suites, cluster_list)
CallMINT ==
    /\ pc = "AGE_returned"
    /\ \E answers \in AllAnswers(cluster_list) :
          LET r == MINT(suites, cluster_list, answers)
          IN /\ Hunts(cluster_list, answers)
             /\ suites' = r.suites
             /\ refined_clusters' = r.refined_clusters
             /\ noise' = r.noise
    /\ old_suites' = suites
    /\ pc' = "MINT_returned"
    /\ calls' = calls + 1
    /\ linkage_matrix' = << >> /\ percentage' = 0 /\ data_count' = 0
    /\ threshold' = 0
    /\ UNCHANGED << min_cluster_size, cluster_list, outlier_indices, suite_indices, error >>
    /\ UNCHANGED pipeline_vars

NextStages ==
    \/ CallAGE
    \/ CallAGERaises
    \/ CallMINT

SpecStages == InitStages /\ [][NextStages]_vars

(***************************************************************************)
(* SpecRepeat: AGE and MINT called again and again on the same in-memory   *)
(* collection (other parameters, another linkage method), MINT always on   *)
(* the Cluster List the latest AGE returned.                               *)
(***************************************************************************)
NextRepeat ==
    \/ (calls < MaxCalls /\ RecallAGE)
    \/ CallAGERaises
    \/ (calls < MaxCalls /\ CallMINT)

SpecRepeat == InitStages /\ [][NextRepeat]_vars

(***************************************************************************)
(* Spec: run_mint_age_pipeline, called again and again with one output     *)
(* folder.  procrustes_file and final_pickle outlive a run; a cache file   *)
(* may be left damaged between runs (a truncated write, a disk fault).     *)
(* final_pickle is never read: what an earlier run left in it is kept only *)
(* as "stale".  The io record counts what the current run has done.        *)
(***************************************************************************)
ParseResults ==
    UNION { [1..k -> { Item(a) : a \in {"None", "vector"} }] : k \in 0..PipeSuites }

\* the alignment collaborator: same items, same order, coordinates aligned
procrustes_analysis(S) == [i \in 1..Len(S) |-> [S[i] EXCEPT !.aligned = TRUE]]

\* pickle.dump(suites, f)
PickleDump(S) == [kind |-> "pickle", data |-> S]

\* pickle.load(f) of a file pickle.dump wrote
PickleLoad(file) == file.data

MustAlignOnlyForced(recalc, file) == recalc

MustAlignAlways(recalc, file) == TRUE

\* recalculate, or no file at procrustes_file
MustAlign(recalc, file) == recalc \/ file.kind = "absent"

AfterMINTNoPlot(plotting) == "save"

\* if plot: plot_clustering(...)
AfterMINT(plotting) == IF plotting THEN "plot_clustering" ELSE "save"

Init ==
    /\ pc = "idle"
    /\ suites = << >>
    /\ calls = 0
    /\ error = "none"
    /\ NoLocals
    /\ NoResults
    /\ PipelineIdle

\* run_mint_age_pipeline(input_pdb_dir, output_folder, recalculate, ..., plot)
RunPipeline ==
    /\ pc \in {"idle", "done", "raised"}
    /\ recalculate' \in BOOLEAN
    /\ plot' \in BOOLEAN
    /\ pc' = "parse_data"
    /\ suites' = << >> /\ parsed' = << >> /\ returned' = << >>
    /\ cluster_list' = << >> /\ refined_clusters' = << >> /\ noise' = {}
    /\ hunted' = EmptyMap /\ outlier_indices' = {} /\ suite_indices' = << >>
    /\ file_before' = NoFile
    /\ io' = NoIO
    /\ error' = "none"
    /\ final_pickle' = IF final_pickle.kind = "absent" THEN NoFile
                       ELSE [kind |-> "stale", data |-> << >>]
    /\ UNCHANGED << linkage_matrix, percentage, data_count, min_cluster_size, threshold,
                    old_suites, calls, procrustes_file, final_plots >>

\* suites = parse_data(input_pdb_dir)
ParseData ==
    /\ pc = "parse_data"
    /\ suites' \in ParseResults
    /\ parsed' = suites'
    /\ pc' = "procrustes_step"
    /\ UNCHANGED << linkage_matrix, percentage, data_count, min_cluster_size, threshold,
                    cluster_list, outlier_indices, suite_indices, refined_clusters,
                    noise, hunted, old_suites, calls, recalculate, plot, procrustes_file,
                    final_pickle, final_plots, file_before, io, error, returned >>

\* suites = procrustes_step(suites, output_folder, recalculate)
ProcrustesStep ==
    /\ pc = "procrustes_step"
    /\ file_before' = procrustes_file
    /\ IF MustAlign(recalculate, procrustes_file)
       THEN /\ suites' = procrustes_analysis(suites)
            /\ procrustes_file' = PickleDump(suites')
            /\ io' = [io EXCEPT !.align_calls = @ + 1, !.wrote_file = TRUE]
            /\ pc' = "AGE"
            /\ UNCHANGED error
       ELSE IF procrustes_file.kind = "damaged"
       THEN /\ io' = [io EXCEPT !.read_file = TRUE]
            /\ error' = "UnpicklingError"
            /\ pc' = "raised"
            /\ UNCHANGED << suites, procrustes_file >>
       ELSE /\ suites' = PickleLoad(procrustes_file)
            /\ io' = [io EXCEPT !.read_file = TRUE]
            /\ pc' = "AGE"
            /\ UNCHANGED << procrustes_file, error >>
    /\ UNCHANGED << linkage_matrix, percentage, data_count, min_cluster_size, threshold,
                    cluster_list, outlier_indices, suite_indices, refined_clusters,
                    noise, hunted, old_suites, calls, recalculate, plot, final_pickle,
                    final_plots, parsed, returned >>

\* cluster_list = AGE(suites, ...)
StepAGE ==
    /\ pc = "AGE"
    /\ IF LinkageRaises(suites)
       THEN /\ error' = "ValueError"
            /\ pc' = "raised"
            /\ UNCHANGED << suites, cluster_list >>
       ELSE /\ \E Z \in Linkages(Len(SuiteIndices(suites))), p \in 0..PDen, m \in 1..MaxM :
                 LET r == AGE(suites, Z, p, m)
                 IN /\ suites' = r.suites
                    /\ cluster_list' = r.cluster_list
            /\ pc' = "MINT"
            /\ UNCHANGED error
    /\ UNCHANGED << linkage_matrix, percentage, data_count, min_cluster_size, threshold,
                    outlier_indices, suite_indices, refined_clusters, noise, hunted,
                    old_suites, calls >>
    /\ UNCHANGED pipeline_vars

\* refined_clusters = MINT(suites, cluster_list)
StepMINT ==
    /\ pc = "MINT"
    /\ \E answers \in AllAnswers(cluster_list) :
          LET r == MINT(suites, cluster_list, answers)
          IN /\ Hunts(cluster_list, answers)
             /\ suites' = r.suites
             /\ refined_clusters' = r.refined_clusters
             /\ noise' = r.noise
    /\ pc' = AfterMINT(plot)
    /\ UNCHANGED << linkage_matrix, percentage, data_count, min_cluster_size, threshold,
                    cluster_list, outlier_indices, suite_indices, old_suites,
                    calls, error >>
    /\ UNCHANGED pipeline_vars

\* plot_clustering(...) renders
StepPlot ==
    /\ pc = "plot_clustering"
    /\ io' = [io EXCEPT !.plot_calls = @ + 1]
    /\ final_plots' = TRUE
    /\ pc' = "save"
    /\ UNCHANGED << suites, linkage_matrix, percentage, data_count, min_cluster_size,
                    threshold, cluster_list, outlier_indices, suite_indices,
                    refined_clusters, noise, hunted, old_suites, calls, recalculate, plot,
                    procrustes_file, final_pickle, parsed, file_before, error, returned >>

\* plot_clustering(...) raises: nothing in run_mint_age_pipeline catches it
StepPlotRaises ==
    /\ pc = "plot_clustering"
    /\ io' = [io EXCEPT !.plot_calls = @ + 1]
    /\ error' = "PlotError"
    /\ pc' = "raised"
    /\ UNCHANGED << suites, linkage_matrix, percentage, data_count, min_cluster_size,
                    threshold, cluster_list, outlier_indices, suite_indices,
                    refined_clusters, noise, hunted, old_suites, calls, recalculate, plot,
                    procrustes_file, final_pickle, final_plots, parsed, file_before,
                    returned >>

\* pickle.dump(suites, final_pickle); return suites
SaveFinal ==
    /\ pc = "save"
    /\ final_pickle' = PickleDump(suites)
    /\ io' = [io EXCEPT !.wrote_final = TRUE]
    /\ returned' = suites
    /\ pc' = "done"
    /\ UNCHANGED << suites, linkage_matrix, percentage, data_count, min_cluster_size,
                    threshold, cluster_list, outlier_indices, suite_indices,
                    refined_clusters, noise, hunted, old_suites, calls, recalculate, plot,
                    procrustes_file, final_plots, parsed, file_before, error >>

\* between two runs the cache file is left unreadable
DamageCache ==
    /\ pc \in {"done", "raised"}
    /\ procrustes_file.kind = "pickle"
    /\ procrustes_file' = [kind |-> "damaged", data |-> << >>]
    /\ UNCHANGED << pc, suites, linkage_matrix, percentage, data_count, min_cluster_size,
                    threshold, cluster_list, outlier_indices, suite_indices,
                    refined_clusters, noise, hunted, old_suites, calls, recalculate, plot,
                    final_pickle, final_plots, parsed, file_before, io, error, returned >>

Next ==
    \/ RunPipeline
    \/ ParseData
    \/ ProcrustesStep
    \/ StepAGE
    \/ StepMINT
    \/ StepPlot
    \/ StepPlotRaises
    \/ SaveFinal
    \/ DamageCache

Spec == Init /\ [][Next]_vars

(***************************************************************************)
(* Vocabulary of the properties                                            *)
(***************************************************************************)
\* the rows that the merges of distance <= d join with row r
CutClass(Z, d, r) ==
    {r} \cup UNION { Leaves(Z, NumObs(Z) + i) :
                       i \in { j \in 1..Len(Z) : /\ r \in Leaves(Z, NumObs(Z) + j)
                                                  /\ MaxDistBelow(Z, NumObs(Z) + j) <= d } }

\* rows in clusters of size < m when Z is cut at d
UndersizedAt(Z, d, m) == { r \in 1..NumObs(Z) : Cardinality(CutClass(Z, d, r)) < m }

\* the undersized-point fraction of the cut of Z at d is <= p / PDen
BoundMetAt(Z, d, p, n, m) == Cardinality(UndersizedAt(Z, d, m)) * PDen <= p * n

MergeDistances(Z) == { Z[i].dist : i \in 1..Len(Z) }

MaxMergeDistance(Z) == CHOOSE d \in MergeDistances(Z) : \A e \in MergeDistances(Z) : e <= d

\* C1: whenever find_outlier_threshold_simple (p > 0) returns one of the merge
\* distances, the cut at that distance meets the outlier bound and the cut
\* at every strictly smaller merge distance misses it (ascending first match).
C1_FirstMatch ==
    (pc = "threshold_returned" /\ percentage > 0
        /\ threshold \in MergeDistances(linkage_matrix))
    => /\ BoundMetAt(linkage_matrix, threshold, percentage, data_count, min_cluster_size)
       /\ \A d \in MergeDistances(linkage_matrix) :
             d < threshold
             => ~BoundMetAt(linkage_matrix, d, percentage, data_count, min_cluster_size)

\* the scan passed over a smaller merge distance and returned a later one
C1_Witness ==
    /\ pc = "threshold_returned" /\ percentage > 0
    /\ threshold \in MergeDistances(linkage_matrix)
    /\ \E d \in MergeDistances(linkage_matrix) : d < threshold
    /\ NumObs(linkage_matrix) >= 4

\* C2: the returned distance exceeds the maximum merge distance exactly when
\* p <= 0 or no merge distance meets the bound, and the cut at such a
\* returned distance is one single cluster.
C2_Sentinel ==
    pc = "threshold_returned"
    => /\ (threshold > MaxMergeDistance(linkage_matrix))
          <=> \/ percentage <= 0
              \/ \A d \in MergeDistances(linkage_matrix) :
                    ~BoundMetAt(linkage_matrix, d, percentage, data_count,
                                min_cluster_size)
       /\ threshold > MaxMergeDistance(linkage_matrix)
          => \A r \in 1..NumObs(linkage_matrix) :
                CutClass(linkage_matrix, threshold, r) = 1..NumObs(linkage_matrix)

\* the scan ran over at least two distinct candidates and none met the bound
C2_WitnessScanFails ==
    /\ pc = "threshold_returned" /\ percentage > 0
    /\ Cardinality(MergeDistances(linkage_matrix)) >= 2
    /\ threshold > MaxMergeDistance(linkage_matrix)

(***************************************************************************)
(* Properties of AGE and MINT                                              *)
(***************************************************************************)
Eligible(S) == { i \in 1..Len(S) : S[i].dihedral_angles # "None" }

HasLabel(item, key) == item.has_clustering /\ key \in DOMAIN item.clustering

\* the identifiers in the entries of a list of lists
Members(lists) == UNION { Range(lists[j]) : j \in 1..Len(lists) }

\* the items AGE has labelled "outlier"
OutlierSet(S) ==
    { i \in 1..Len(S) : /\ HasLabel(S[i], "precluster")
                        /\ S[i].clustering["precluster"] = OutlierLabel }

\* each identifier occurs in at most one entry, at most once
Disjoint(lists) ==
    \A j \in 1..Len(lists) :
       /\ \A x, y \in 1..Len(lists[j]) : lists[j][x] = lists[j][y] => x = y
       /\ \A h \in 1..Len(lists) : h # j => Range(lists[j]) \cap Range(lists[h]) = {}

\* the row of the feature matrix that holds item i
RowOf(i) == CHOOSE r \in 1..Len(suite_indices) : suite_indices[r] = i

\* C3: after AGE, the Cluster List entries and the outlier set split exactly
\* the eligible identifiers; entries have size >= min_cluster_size and every
\* outlier comes from a cluster of size < min_cluster_size.
C3_Partition ==
    pc = "AGE_returned"
    => /\ Members(cluster_list) \cup OutlierSet(suites) = Eligible(suites)
       /\ Members(cluster_list) \cap OutlierSet(suites) = {}
       /\ Disjoint(cluster_list)
       /\ \A j \in 1..Len(cluster_list) : Len(cluster_list[j]) >= min_cluster_size
       /\ \A i \in OutlierSet(suites) :
             Cardinality(CutClass(linkage_matrix, threshold, RowOf(i))) < min_cluster_size

\* a retained cluster beside an outlier
C3_Witness ==
    /\ pc = "AGE_returned"
    /\ Len(cluster_list) >= 1
    /\ OutlierSet(suites) # {}

\* C4: after AGE every eligible item carries the zero-based position of its
\* Cluster List entry, or "outlier" when it is in the outlier set; an item
\* without a feature vector is exactly as it was before the call.
C4_Labels ==
    pc = "AGE_returned"
    => \A i \in 1..Len(suites) :
          IF i \in Eligible(suites)
          THEN /\ HasLabel(suites[i], "precluster")
               /\ \/ /\ i \in { suite_indices[r] : r \in outlier_indices }
                     /\ suites[i].clustering["precluster"] = OutlierLabel
                  \/ \E j \in 1..Len(cluster_list) :
                        /\ i \in Range(cluster_list[j])
                        /\ suites[i].clustering["precluster"] = IntLabel(j - 1)
          ELSE /\ suites[i] = old_suites[i]
               /\ ~HasLabel(suites[i], "precluster")

\* an item without feature vector ahead of the items of the first entry
C4_Witness ==
    /\ pc = "AGE_returned"
    /\ 1 \notin Eligible(suites)
    /\ \E i \in 1..Len(suites) :
          /\ HasLabel(suites[i], "precluster")
          /\ suites[i].clustering["precluster"] = IntLabel(0)

FinalLabelled(S) == { i \in 1..Len(S) : HasLabel(S[i], "mint_age_cluster") }

\* position in the Cluster List of the pre-cluster a refined entry comes from
PreClusterOf(entry) ==
    CHOOSE c \in 1..Len(cluster_list) : Range(entry) \subseteq Range(cluster_list[c])

\* C5: after MINT the final labels carried by items are exactly 0..k-1 for
\* the k entries of the Refined Cluster List, entry j carries label j-1 on
\* all its members and on no other item, and the entries follow the order
\* of the pre-clusters they come from.
C5_FinalLabels ==
    pc = "MINT_returned"
    => LET k == Len(refined_clusters)
       IN /\ { suites[i].clustering["mint_age_cluster"] : i \in FinalLabelled(suites) }
                = { IntLabel(j) : j \in 0..(k - 1) }
          /\ \A j \in 1..k :
                { i \in FinalLabelled(suites) :
                     suites[i].clustering["mint_age_cluster"] = IntLabel(j - 1) }
                   = Range(refined_clusters[j])
          /\ \A j, h \in 1..k :
                j < h => PreClusterOf(refined_clusters[j]) <= PreClusterOf(refined_clusters[h])

\* two pre-clusters, the first split in two: the second continues at label 2
C5_Witness ==
    /\ pc = "MINT_returned"
    /\ Len(cluster_list) = 2
    /\ Len(refined_clusters) = 3
    /\ PreClusterOf(refined_clusters[2]) = 1
    /\ PreClusterOf(refined_clusters[3]) = 2

\* C10: with min_cluster_size <= n < 2 * min_cluster_size and 0 <= p < 1, AGE
\* returns exactly one entry, of size >= min_cluster_size, and at most p * n
\* outliers; when the threshold is the coarsest-cut fallback the entry holds
\* all n items and nothing is an outlier.
C10_SingleCluster ==
    (/\ pc = "AGE_returned"
     /\ min_cluster_size <= data_count /\ data_count < 2 * min_cluster_size
     /\ 0 <= percentage /\ percentage < PDen)
    => /\ Len(cluster_list) = 1
       /\ Len(cluster_list[1]) >= min_cluster_size
       /\ Cardinality(OutlierSet(suites)) * PDen <= percentage * data_count
       /\ threshold > MaxMergeDistance(linkage_matrix)
          => /\ Range(cluster_list[1]) = Eligible(suites)
             /\ OutlierSet(suites) = {}

\* one cluster with an outlier beside it
C10_Witness ==
    /\ pc = "AGE_returned"
    /\ min_cluster_size <= data_count /\ data_count < 2 * min_cluster_size
    /\ 0 < percentage /\ percentage < PDen
    /\ Len(cluster_list) = 1
    /\ OutlierSet(suites) # {}

\* the pre-cluster label AGE gave item i: the position of its entry
CarriesPreCluster(i) ==
    /\ HasLabel(suites[i], "precluster")
    /\ \E c \in 1..Len(cluster_list) :
          /\ i \in Range(cluster_list[c])
          /\ suites[i].clustering["precluster"] = IntLabel(c - 1)

\* C6 as claimed: after MINT, following any sequence of AGE and MINT calls, an
\* item the collaborator assigned to noise has no final label, carries its
\* pre-cluster label and is in no entry of the Refined Cluster List.
C6_NoiseUnlabelled ==
    pc = "MINT_returned"
    => \A i \in noise :
          /\ ~HasLabel(suites[i], "mint_age_cluster")
          /\ CarriesPreCluster(i)
          /\ i \notin Members(refined_clusters)

\* C6 amended: MINT writes nothing to an item assigned to noise.  Its
\* labelling map is exactly what it was when the call began (so it has a
\* final label only if an earlier MINT call left one), it carries its
\* pre-cluster label and is in no entry of the Refined Cluster List.
C6_NoiseUntouched ==
    pc = "MINT_returned"
    => \A i \in noise :
          /\ suites[i] = old_suites[i]
          /\ (\A j \in 1..Len(old_suites) : ~HasLabel(old_suites[j], "mint_age_cluster"))
                => ~HasLabel(suites[i], "mint_age_cluster")
          /\ CarriesPreCluster(i)
          /\ i \notin Members(refined_clusters)

\* a noise item that still shows the final label of an earlier MINT call,
\* beside a refined cluster of this call
C6_Witness ==
    /\ pc = "MINT_returned"
    /\ refined_clusters # << >>
    /\ \E i \in noise : HasLabel(suites[i], "mint_age_cluster")

(***************************************************************************)
(* Properties of run_mint_age_pipeline                                     *)
(***************************************************************************)
Unlabelled(S) == \A i \in 1..Len(S) : ~S[i].has_clustering

\* the run has ended, and AGE was given fewer than 2 feature vectors
ShortOfData ==
    /\ pc \in {"done", "raised"}
    /\ error # "UnpicklingError"
    /\ Cardinality(Eligible(suites)) < 2

\* C7 as claimed: with fewer than 2 feature vectors the run ends in
\* InsufficientDataError, nothing is labelled and neither the alignment cache
\* nor the final file has been written by the run.
C7_NoArtifact ==
    ShortOfData
    => /\ pc = "raised" /\ error = "InsufficientDataError"
       /\ Unlabelled(suites)
       /\ ~io.wrote_file
       /\ ~io.wrote_final

\* C7 amended: with fewer than 2 feature vectors the run ends in the error
\* the linkage builder raises (a ValueError), nothing is labelled, nothing is
\* returned and the final file is not written; the alignment cache has been
\* written by the run exactly when recompute was forced or no cache existed.
C7_AbortsBeforeFinal ==
    ShortOfData
    => /\ pc = "raised" /\ error = "ValueError"
       /\ Unlabelled(suites)
       /\ returned = << >>
       /\ ~io.wrote_final /\ final_pickle.kind # "pickle"
       /\ io.wrote_file <=> (recalculate \/ file_before.kind = "absent")

\* an aborted run that has written the alignment cache
C7_Witness ==
    /\ ShortOfData
    /\ pc = "raised"
    /\ suites # << >>
    /\ io.wrote_file
    /\ procrustes_file.kind = "pickle"

\* procrustes_step has just ended
AlignmentEnded == pc = "AGE" \/ (pc = "raised" /\ error = "UnpicklingError")

Recomputed ==
    /\ pc = "AGE"
    /\ ~io.read_file
    /\ io.align_calls = 1
    /\ suites = procrustes_analysis(parsed)
    /\ io.wrote_file /\ procrustes_file = PickleDump(suites)

Reused ==
    /\ pc = "AGE"
    /\ io.read_file
    /\ io.align_calls = 0
    /\ suites = file_before.data
    /\ ~io.wrote_file /\ procrustes_file = file_before

\* C8 as claimed: recompute=true recomputes and overwrites without reading;
\* recompute=false reuses an existing artifact and recomputes when there is
\* none; an unreadable artifact counts as a miss and never ends the run.
C8_CachePolicy ==
    AlignmentEnded
    => /\ recalculate => Recomputed
       /\ (~recalculate /\ file_before.kind = "pickle") => Reused
       /\ (~recalculate /\ file_before.kind = "absent") => Recomputed
       /\ (~recalculate /\ file_before.kind = "damaged") => Recomputed

\* C8 amended: as claimed, except that with recompute=false an unreadable
\* artifact ends the run with the load error: the alignment collaborator is
\* not called and the artifact stays as it was.
C8_CachePolicyLoadFails ==
    AlignmentEnded
    => /\ recalculate => Recomputed
       /\ (~recalculate /\ file_before.kind = "pickle") => Reused
       /\ (~recalculate /\ file_before.kind = "absent") => Recomputed
       /\ (~recalculate /\ file_before.kind = "damaged")
             => /\ pc = "raised" /\ error = "UnpicklingError"
                /\ io.align_calls = 0
                /\ ~io.wrote_file /\ procrustes_file = file_before

\* a run that reuses the artifact of an earlier run for other parsed items
C8_Witness ==
    /\ pc = "AGE"
    /\ ~recalculate
    /\ io.read_file
    /\ parsed # << >>
    /\ suites # procrustes_analysis(parsed)

Persisted ==
    /\ pc = "done"
    /\ io.wrote_final /\ final_pickle = PickleDump(suites)
    /\ returned = suites

\* C9 as claimed: a failing visualization collaborator does not keep the run
\* from writing the final artifact and returning the labelled items.
C9_PlotFailureHarmless == error = "PlotError" => Persisted

\* C9 amended: a failing visualization collaborator ends the run: the final
\* artifact is not written and nothing is returned.  A run that ends without
\* error has written the final artifact and returned the labelled items,
\* after one call of the collaborator when plotting is enabled.
C9_PlotFailureAborts ==
    /\ error = "PlotError"
          => /\ pc = "raised" /\ plot
             /\ ~io.wrote_final /\ final_pickle.kind # "pickle"
             /\ returned = << >>
    /\ pc = "done"
          => /\ Persisted
             /\ io.plot_calls = (IF plot THEN 1 ELSE 0)

\* the collaborator failed on a collection MINT had given final labels
C9_Witness ==
    /\ error = "PlotError"
    /\ pc = "raised"
    /\ FinalLabelled(suites) # {}

====
